---- MODULE Spec2Model ----
(***************************************************************************)
(* The producer connection of backend/app/main.py (ws_stt_deepgram): the   *)
(* event loop from_deepgram_to_server with its closure state               *)
(* (pending_kr, pending_task, seq, commit_now._last_kr), the debounce      *)
(* tasks created by arm_timer, the commit path commit_now with every       *)
(* await of it as a separate step, and the teardown of the handler; of a   *)
(* second producer connection its seq and _last_kr; and the class          *)
(* SentenceAggregator of backend/app/aggregate.py.                         *)
(*                                                                         *)
(* Texts are sequences of one-character strings.  Python's None and ""     *)
(* are both the empty sequence: the code only ever tests pending_kr for    *)
(* truthiness, and stores no empty string in it.                           *)
(* Executor 0 is the event loop; executor t >= 1 is the t-th task that     *)
(* arm_timer created.                                                      *)
(***************************************************************************)
EXTENDS Naturals, Sequences, FiniteSets

VARIABLES
    seq,            \* nonlocal seq of ws_stt_deepgram
    pending_kr,     \* pending_kr of from_deepgram_to_server
    pending_task,   \* pending_task: 0 is None, t >= 1 the task
    last_kr,        \* commit_now._last_kr
    tasks,          \* the tasks created by arm_timer
    frame,          \* the activation of commit_now of each executor
    loop,           \* where from_deepgram_to_server stands
    loopCancel,     \* producer.cancel() was called and has not landed yet
    conn,           \* client socket, ASR stream, closed event, handler
    nEv,            \* ASR messages received so far
    nArmed,         \* tasks created so far
    delivered,      \* messages handed to the producer socket and the hub
    sinceCommit,    \* time since seq was last incremented (history)
    txOutcomes,     \* what the services may do in this run: translate_text returns,
                    \* raises, hangs; the ASR stream carries JSON that is no object
    calls,          \* calls of commit_now so far (history)
    uttAccepted,    \* the pending utterance has had a commit accepted (history)
    run,            \* the non-empty final transcripts received (history)
    partials,       \* the preview texts sent to the producer socket
    active,         \* manager.active: the listener sockets of the hub
    heard,          \* what each listener socket has been sent: <<commit, shape>>
    peer,           \* seq and commit_now._last_kr of a second producer connection
    agg,            \* a SentenceAggregator object (app/aggregate.py) and its history
    committer,      \* a Committer object (app/commit.py) and its history
    script_store,   \* the ScriptStore singleton (app/services/script_store.py)
    threads         \* the threads that call the store: where each stands, its
                    \* locals and what its last call returned

vars == <<seq, pending_kr, pending_task, last_kr, tasks, frame, loop,
          loopCancel, conn, nEv, nArmed, delivered, sinceCommit, txOutcomes, committer, script_store, threads, peer, agg,
          calls, uttAccepted, run, partials, active, heard>>

----------------------------------------------------------------------------
(* Bounds of the model *)

MaxEvents == 2

\* the ASR messages of a run, over both producer connections, are at most
\* MaxEvents
EventsLeft == nEv + peer.n < MaxEvents

(* Program constants *)

COMMIT_WAIT_MS == 500

\* The elapsed time since the last commit, in debounce waits: 0, 1, or 4000 ms
\* and more (the clock first advances by one wait, then past 4000 ms).
WindowTicks == 4000 \div COMMIT_WAIT_MS

None == << >>

----------------------------------------------------------------------------
(* Text helpers *)

SENTENCE_PUNCT == {".", "?", "!", "fw_period", "fw_question", "fw_excl", "ellipsis"}

IsSpace(c) == c = " "

RECURSIVE lstrip(_)
lstrip(s) == IF s # << >> /\ IsSpace(Head(s)) THEN lstrip(Tail(s)) ELSE s

RECURSIVE rstrip(_)
rstrip(s) ==
    IF s # << >> /\ IsSpace(s[Len(s)]) THEN rstrip(SubSeq(s, 1, Len(s) - 1)) ELSE s

strip(s) == rstrip(lstrip(s))

\* str.split(): the maximal runs of non-space characters
RECURSIVE SplitWs(_, _, _)
SplitWs(s, cur, acc) ==
    IF s = << >> THEN (IF cur = << >> THEN acc ELSE Append(acc, cur))
    ELSE IF IsSpace(Head(s))
         THEN SplitWs(Tail(s), << >>, IF cur = << >> THEN acc ELSE Append(acc, cur))
         ELSE SplitWs(Tail(s), Append(cur, Head(s)), acc)

\* " ".join(words)
RECURSIVE JoinSp(_)
JoinSp(ws) ==
    IF ws = << >> THEN << >>
    ELSE IF Len(ws) = 1 THEN ws[1]
    ELSE ws[1] \o <<" ">> \o JoinSp(Tail(ws))

norm_ws(s) == JoinSp(SplitWs(s, << >>, << >>))

\* variant: a text that ends in the ending -seumnida counts as a sentence too
EndsLikeSentenceOrEnding(t) ==
    LET r == rstrip(t)
    IN r # << >> /\ (\/ r[Len(r)] \in SENTENCE_PUNCT
                     \/ (Len(r) >= 3 /\ SubSeq(r, Len(r) - 2, Len(r)) = <<"seup", "ni", "da">>))

ends_like_sentence(t) ==
    LET r == rstrip(t) IN r # << >> /\ r[Len(r)] \in SENTENCE_PUNCT

IsPrefix(a, b) == Len(a) <= Len(b) /\ SubSeq(b, 1, Len(a)) = a
IsSuffix(a, b) == Len(a) <= Len(b) /\ SubSeq(b, Len(b) - Len(a) + 1, Len(b)) = a

----------------------------------------------------------------------------
(* Inputs: the transcripts the ASR stream may carry *)

T_empty == << >>
T_ab    == <<"a", " ", "b">>
T_ab_ws == <<" ", "a", " ", " ", "b">>
T_ab_p  == <<"a", " ", "b", ".">>
\* a long Korean clause that begins like T_ab, carries no mark, and ends in
\* the declarative ending -seumnida (three hangul syllables, written by
\* their romanised names)
T_long  == <<"a", " ", "b", " ", "c", "d", "e", "f", "g", "h", "i", "j", "k", "seup", "ni", "da">>

Transcripts == {T_empty, T_ab, T_ab_ws, T_ab_p, T_long}
PartialTranscripts == {T_empty, T_ab}

Executors == 0 .. MaxEvents
TaskIds == 1 .. MaxEvents

\* the listener sockets that may be connected to the hub
Listeners == {"l1", "l2"}

\* snap, todo, dead: the list and the progress of the broadcast call under way
IdleFrame == [pc |-> "idle", kr |-> None, cid |-> 0, en |-> None, mseq |-> 0,
              snap |-> {}, todo |-> {}, dead |-> {}]
\* slept: halves of the wait that have passed (told apart in the runs with
\* steady finals only)
NoTask == [st |-> "unused", snap |-> None, expired |-> FALSE, wait |-> 0, slept |-> 0]
EndedTask == [st |-> "ended", snap |-> None, expired |-> FALSE, wait |-> 0, slept |-> 0]

----------------------------------------------------------------------------
(* State after ws_stt_deepgram has accepted the client (main.py 606): the   *)
(* handler is about to connect to the ASR service, no flow exists yet      *)
(* txOutcomes is fixed at the start of a run.  Under Init translate_text    *)
(* always returns a translation; under InitTx it may also return an empty  *)
(* text or raise, which takes the except branch of line 675.               *)

\* SentenceAggregator.__init__ (aggregate.py 13-18); waited: max_wait_ms have
\* passed since _started; n, finals, emitted: the calls made, the texts ingested
\* with is_final, the texts returned (history)
NewAggregator(on, require_punct) ==
    [on |-> on, require_punct |-> require_punct, open |-> FALSE, waited |-> FALSE,
     latest |-> << >>, out |-> << >>, n |-> 0, finals |-> {}, emitted |-> {}]

\* what maybe_commit returns when it returns None
NoCommit == [ok |-> FALSE, seq |-> 0, text |-> << >>]

\* commit.py lines 5-7: seq = 0, _last = ""; out is what the last call
\* returned, n counts the calls and rets lists the seq values returned
NewCommitter(on) ==
    [on |-> on, seq |-> 0, last |-> << >>, out |-> NoCommit, n |-> 0, rets |-> << >>]

\* script_store.py 14-18: no ScriptPair
NoPair == [source |-> << >>, target |-> << >>, index |-> 0 - 1]

\* a score n / d; 0.0 is 0 / 1
ZeroScore == [n |-> 0, d |-> 1]

\* script_store.py 27-31, thresholds in hundredths; lock is the thread that
\* holds _lock; gens[v + 1] is the store as the load or clear that produced
\* version v left it (history)
NewScriptStore(on) ==
    [on |-> on, pairs |-> << >>, threshold |-> 84, version |-> 0, lock |-> "free",
     gens |-> << [pairs |-> << >>, threshold |-> 84] >>]

\* the threads of the thread pool that run the routes of the store: two that
\* load and clear, one that reads
Writers == {"w1", "w2"}
Reader == "r"
Threads == Writers \cup {Reader}

\* threshold=None of load
NoThreshold == 0 - 1000

NoRet == [kind |-> "none", pair |-> NoPair, score |-> ZeroScore, count |-> 0,
          threshold |-> 0, version |-> 0]

\* a thread outside the store: pc is where it stands, arg the threshold it
\* was given, version what it read at line 73, ret what its last call
\* returned, n the calls it has made
IdleThread ==
    [pc |-> "idle", op |-> "none", arg |-> NoThreshold, version |-> 0, ret |-> NoRet, n |-> 0]

\* no connection: the run is the life of an object the handler does not use
NoConnection ==
    [client |-> "none", dg |-> "none", closed |-> FALSE,
     handler |-> "none", fin |-> 0, err |-> 0]

\* a run is either a run of the connection handler, or the life of one
\* SentenceAggregator object, or of one Committer object, or of the script
\* store under the threads of its routes; the handler uses none of them
InitWith(outcomes, listeners) ==
    /\ \/ /\ agg = NewAggregator(FALSE, FALSE)
          /\ committer = NewCommitter(FALSE)
          /\ script_store = NewScriptStore(FALSE)
          /\ conn = [client |-> "open", dg |-> "none", closed |-> FALSE,
                     handler |-> "connecting", fin |-> 0, err |-> 0]
       \/ /\ \E require_punct \in BOOLEAN : agg = NewAggregator(TRUE, require_punct)
          /\ committer = NewCommitter(FALSE)
          /\ script_store = NewScriptStore(FALSE)
          /\ conn = NoConnection
       \/ /\ agg = NewAggregator(FALSE, FALSE)
          /\ committer = NewCommitter(TRUE)
          /\ script_store = NewScriptStore(FALSE)
          /\ conn = NoConnection
       \/ /\ agg = NewAggregator(FALSE, FALSE)
          /\ committer = NewCommitter(FALSE)
          /\ script_store = NewScriptStore(TRUE)
          /\ conn = NoConnection
    /\ threads = [t \in Threads |-> IdleThread]
    /\ seq = 0
    /\ pending_kr = None
    /\ pending_task = 0
    /\ last_kr = None
    /\ tasks = [t \in TaskIds |-> NoTask]
    /\ frame = [e \in Executors |-> IdleFrame]
    /\ loop = "off"
    /\ loopCancel = FALSE
    /\ nEv = 0
    /\ nArmed = 0
    /\ delivered = {}
    /\ sinceCommit = 0
    /\ txOutcomes = outcomes
    /\ calls = 0
    /\ uttAccepted = FALSE
    /\ run = [n |-> 0, text |-> None, same |-> TRUE]
    /\ partials = {}
    /\ active = listeners
    /\ heard = [l \in Listeners |-> {}]
    /\ peer = [seq |-> 0, last_kr |-> None, n |-> 0, tried |-> None]

\* no listener is connected to the hub
Init == InitWith({"translated"}, {})

InitTx == InitWith({"translated", "empty", "raise"}, {})

InitHang == InitWith({"translated", "hang"}, {})

\* final events with an empty transcript may go on arriving without end
InitSteady == InitWith({"translated", "steady_finals"}, {})

\* two listeners are connected to the hub
InitHub == InitWith({"translated"}, Listeners)

\* the connection after its first commit, of a sentence with a terminal mark,
\* has been delivered in full; the count of events starts anew
AfterFirstCommit ==
    /\ agg = NewAggregator(FALSE, FALSE)
    /\ committer = NewCommitter(FALSE)
    /\ script_store = NewScriptStore(FALSE)
    /\ threads = [t \in Threads |-> IdleThread]
    /\ conn = [client |-> "open", dg |-> "open", closed |-> FALSE,
               handler |-> "waiting", fin |-> 0, err |-> 0]
    /\ seq = 1 /\ last_kr = T_ab_p /\ calls = 1 /\ uttAccepted = TRUE
    /\ pending_kr = None /\ pending_task = 0
    /\ tasks = [t \in TaskIds |-> NoTask]
    /\ frame = [e \in Executors |-> IdleFrame]
    /\ loop = "recv" /\ loopCancel = FALSE
    /\ nEv = 0 /\ nArmed = 0 /\ sinceCommit = 0
    /\ delivered = {[cid |-> 1, seq |-> 1, src |-> T_ab_p, en |-> <<"en">> \o T_ab_p,
                      shape |-> sh, ch |-> c] :
                        sh \in {"new", "legacy"}, c \in {"echo", "hub"}}
    /\ txOutcomes = {"translated"}
    /\ run = [n |-> 1, text |-> T_ab_p, same |-> TRUE]
    /\ partials = {}
    /\ active = {}
    /\ heard = [l \in Listeners |-> {}]
    /\ peer = [seq |-> 0, last_kr |-> None, n |-> 0, tried |-> None]

\* the runs of Init, and the runs that go on from the first commit
InitLate == Init \/ AfterFirstCommit

\* the ASR stream may carry JSON that is not an object
InitMsg == InitWith({"translated", "non_object"}, {})

----------------------------------------------------------------------------
(* commit_now, lines 662-671: the part that runs before the first await *)

\* variant: the test for empty text is dropped
IsEmptyTextNever(kr) == FALSE

IsEmptyText(kr) == kr = << >> \/ strip(kr) = << >>

\* variants of the de-dup test: dropped, and without whitespace normalisation
IsDuplicateNever(kr, last) == FALSE
IsDuplicateRaw(kr, last) == kr = last

IsDuplicate(kr, last) == norm_ws(kr) = norm_ws(last)

Enters(kr) == ~IsEmptyText(kr) /\ ~IsDuplicate(kr, last_kr)

CommitEntry(fr, e, kr, ua) ==
    /\ calls' = calls + 1
    /\ IF Enters(kr)
       THEN /\ last_kr' = kr
            /\ seq' = seq + 1
            /\ frame' = [fr EXCEPT ![e] = [pc |-> "translate", kr |-> kr, cid |-> seq + 1,
                                           en |-> None, mseq |-> 0,
                                           snap |-> {}, todo |-> {}, dead |-> {}]]
            /\ uttAccepted' = TRUE
            /\ sinceCommit' = 0
       ELSE /\ frame' = fr
            /\ uttAccepted' = ua
            /\ UNCHANGED <<last_kr, seq, sinceCommit>>

(* task.cancel() on a task that is not done: the task is resumed with        *)
(* CancelledError at the await it stands at, which _wait_and_commit swallows *)
(* (lines 730-731) and which commit_now's "except Exception" does not catch. *)
\* variant: the task is left running
CancelNothing(ts, t) == ts

CancelIfRunning(ts, t) ==
    IF t # 0 /\ ts[t].st \in {"sleep", "commit"}
    THEN [ts EXCEPT ![t] = EndedTask]
    ELSE ts

\* a task that no longer runs commit_now has no activation of it
DropFrames(fr, ts) ==
    [e \in Executors |-> IF e # 0 /\ ts[e].st # "commit" THEN IdleFrame ELSE fr[e]]

----------------------------------------------------------------------------
(* arm_timer, lines 720-733 *)

\* variant: the wait is chosen by the length of the text, 600 ms or 250 ms
SleepMsByLength(snap) == IF Len(norm_ws(snap)) < 14 THEN 600 ELSE 250

\* line 727: asyncio.sleep(COMMIT_WAIT_MS / 1000.0), whatever the snapshot
SleepMs(snap) == COMMIT_WAIT_MS

\* line 733: the task created for the snapshot "pending_kr or ''"
NewTask(pend) ==
    [st |-> "sleep", snap |-> pend, expired |-> FALSE, wait |-> SleepMs(pend), slept |-> 0]

\* variant: the previous task is not cancelled before the new one is created
ArmTimerNoCancel(pend) ==
    LET new == nArmed + 1
    IN /\ tasks' = [tasks EXCEPT ![new] = NewTask(pend)]
       /\ pending_task' = new
       /\ nArmed' = new
       /\ frame' = frame

ArmTimer(pend) ==
    LET new == nArmed + 1
        ts1 == CancelIfRunning(tasks, pending_task)
        ts2 == [ts1 EXCEPT ![new] = NewTask(pend)]
    IN /\ tasks' = ts2
       /\ pending_task' = new
       /\ nArmed' = new
       /\ frame' = DropFrames(frame, ts2)

(* line 728: the check _wait_and_commit makes when its sleep is over *)
\* variant: the snapshot is not compared
TimerCheckNoSnapshot(pend, snap) == pend # None

TimerCheck(pend, snap) == pend # None /\ norm_ws(pend) = norm_ws(snap)

----------------------------------------------------------------------------
(* The flush policy of the event loop, lines 770-779 *)

\* variant: a short clause is held on the timer even when speech_final is set
FlushPolicyHoldShort(speech_final, pend) ==
    IF speech_final /\ pend # None /\ Len(norm_ws(pend)) >= 14 THEN "commit"
    ELSE IF pend # None /\ ends_like_sentence(pend) THEN "commit"
    ELSE IF pend # None THEN "arm"
    ELSE "none"

\* variant: the punctuation rule is dropped, such a text waits on the timer
FlushPolicyNoPunct(speech_final, pend) ==
    IF speech_final /\ pend # None THEN "commit"
    ELSE IF pend # None THEN "arm"
    ELSE "none"

\* variant: speech_final is not looked at
FlushPolicyNoSpeechFinal(speech_final, pend) ==
    IF pend # None /\ ends_like_sentence(pend) THEN "commit"
    ELSE IF pend # None THEN "arm"
    ELSE "none"

FlushPolicy(speech_final, pend) ==
    IF speech_final /\ pend # None THEN "commit"
    ELSE IF pend # None /\ ends_like_sentence(pend) THEN "commit"
    ELSE IF pend # None THEN "arm"
    ELSE "none"

\* variant: the transcript is appended to the pending text
NewPendingAppend(transcript, pend) ==
    IF transcript # << >> /\ pend # << >> THEN pend \o <<" ">> \o transcript
    ELSE IF transcript # << >> THEN transcript
    ELSE pend

\* line 765-766: a final event with a transcript replaces the pending text
NewPending(transcript, pend) == IF transcript # << >> THEN transcript ELSE pend


\* a final transcript that differs from the pending text starts a new utterance
StartsUtterance(transcript) ==
    transcript # << >> /\ (pending_kr = None \/ norm_ws(transcript) # norm_ws(pending_kr))

NextRun(transcript) ==
    IF transcript = << >> THEN run
    ELSE IF run.n = 0 /\ run.same THEN [n |-> 1, text |-> transcript, same |-> TRUE]
    ELSE IF run.same /\ transcript = run.text THEN [run EXCEPT !.n = run.n + 1]
    ELSE [n |-> 0, text |-> None, same |-> FALSE]

\* variant: interim events are run through the commit rules as well
IsCommitEventAlways(is_final) == TRUE

\* lines 755-763: only a final event goes on to the commit rules
IsCommitEvent(is_final) == is_final

\* lines 755-760: the preview of an interim transcript; a send on a socket
\* the client has left raises, and the bare except drops the error
PartialPreview(transcript) ==
    IF transcript # << >> /\ conn.client = "open"
    THEN partials \cup {transcript}
    ELSE partials

(* In the runs with steady finals, a final event with an empty transcript    *)
(* and without speech_final that meets a sleeping debounce task is not        *)
(* counted against MaxEvents, and the task that arm_timer creates takes the   *)
(* place of the one it cancels: such events can then arrive without end.      *)
SteadyFinal(transcript, is_final, speech_final) ==
    /\ "steady_finals" \in txOutcomes
    /\ is_final /\ ~speech_final /\ transcript = << >>
    /\ pending_kr # None /\ FlushPolicy(speech_final, pending_kr) = "arm"
    /\ pending_task # 0 /\ tasks[pending_task].st = "sleep"

\* arm_timer, lines 720-733, with the new task in the place of the cancelled one
ArmTimerAgain(pend) ==
    /\ tasks' = [tasks EXCEPT ![pending_task] = NewTask(pend)]
    /\ UNCHANGED <<pending_task, nArmed, frame>>

(* One "Results" message with alternatives, lines 749-779 *)
LoopEventWith(raw, is_final, speech_final) ==
    /\ loop = "recv" /\ ~loopCancel /\ conn.dg = "open"
    /\  LET transcript == strip(raw)
            pend == NewPending(transcript, pending_kr)
            ua == IF StartsUtterance(transcript) THEN FALSE ELSE uttAccepted
            again == SteadyFinal(transcript, is_final, speech_final)
        IN
        /\ is_final \/ raw \in PartialTranscripts
        /\ again \/ EventsLeft
        /\ nEv' = IF again THEN nEv ELSE nEv + 1
        /\ IF ~IsCommitEvent(is_final)
           THEN /\ partials' = PartialPreview(transcript)
                /\ UNCHANGED <<seq, pending_kr, pending_task, last_kr, tasks, frame, loop,
                               nArmed, sinceCommit, calls, uttAccepted, run>>
           ELSE /\ pending_kr' = pend
                /\ partials' = partials
                /\ run' = NextRun(transcript)
                /\ CASE FlushPolicy(speech_final, pend) = "commit" ->
                            /\ CommitEntry(frame, 0, pend, ua)
                            /\ loop' = IF Enters(pend) THEN "commit" ELSE "recv"
                            /\ UNCHANGED <<pending_task, tasks, nArmed>>
                     [] FlushPolicy(speech_final, pend) = "arm" ->
                            /\ IF again THEN ArmTimerAgain(pend) ELSE ArmTimer(pend)
                            /\ uttAccepted' = ua
                            /\ UNCHANGED <<seq, last_kr, loop, sinceCommit, calls>>
                     [] OTHER ->
                            /\ uttAccepted' = ua
                            /\ UNCHANGED <<seq, pending_task, last_kr, tasks, frame, loop,
                                           nArmed, sinceCommit, calls>>
    /\ UNCHANGED <<loopCancel, conn, delivered, txOutcomes, committer, script_store, threads, peer, agg, active, heard>>

LoopEvent ==
    \E raw \in Transcripts, is_final \in BOOLEAN, speech_final \in BOOLEAN :
        LoopEventWith(raw, is_final, speech_final)

\* variant: the event loop ends without flushing the pending text
FinallyNoFlush(fr) ==
    /\ loop' = "done"
    /\ frame' = fr
    /\ UNCHANGED <<seq, last_kr, sinceCommit, calls, uttAccepted>>

(* The finally block of the event loop, lines 781-787 *)
Finally(fr) ==
    IF pending_kr # None
    THEN /\ CommitEntry(fr, 0, pending_kr, uttAccepted)
         /\ loop' = IF Enters(pending_kr) THEN "flush" ELSE "done"
    ELSE /\ loop' = "done"
         /\ frame' = fr
         /\ UNCHANGED <<seq, last_kr, sinceCommit, calls, uttAccepted>>

\* the ASR stream has ended: "async for raw in dg" is over
LoopStreamEnd ==
    /\ loop = "recv" /\ ~loopCancel /\ conn.dg = "ended"
    /\ Finally(frame)
    /\ UNCHANGED <<pending_kr, pending_task, tasks, loopCancel, conn, nEv, nArmed,
                   delivered, txOutcomes, committer, script_store, threads, peer, agg, run, partials, active, heard>>

(* The messages of the ASR stream that are not a Results event with          *)
(* alternatives, lines 737-747: text that is not JSON, a JSON object of       *)
(* another type, a Results object without alternatives, and JSON that is not  *)
(* an object (null, a list, a number, a string)                               *)
MessageKinds ==
    {"not_json", "other_type", "no_alternatives"}
        \cup (IF "non_object" \in txOutcomes THEN {"non_object"} ELSE {})

\* lines 738-747: the first three take a continue; on JSON that is not an
\* object evt.get (line 741) raises AttributeError outside the inner try
Handling(kind) == IF kind = "non_object" THEN "raise" ELSE "continue"

LoopDropMessage ==
    /\ loop = "recv" /\ ~loopCancel /\ conn.dg = "open" /\ EventsLeft
    /\ nEv' = nEv + 1
    /\ \E kind \in MessageKinds :
          IF Handling(kind) = "continue"
          THEN UNCHANGED <<seq, pending_kr, pending_task, last_kr, tasks, frame, loop,
                           sinceCommit, calls, uttAccepted>>
          ELSE \* the exception leaves "async for" through the finally block
               /\ Finally(frame)
               /\ UNCHANGED <<pending_kr, pending_task, tasks>>
    /\ UNCHANGED <<loopCancel, conn, nArmed, delivered, txOutcomes, committer, script_store, threads, peer, agg, run, partials, active, heard>>

(* producer.cancel() lands: CancelledError at the await the loop stands at.  *)
(* In the try body it runs the finally block; inside the finally block it    *)
(* ends the flow (line 786 catches Exception only).                          *)
LoopCancelLands ==
    /\ loopCancel /\ loop # "done"
    /\ loopCancel' = FALSE
    /\ IF loop = "flush"
       THEN /\ loop' = "done"
            /\ frame' = [frame EXCEPT ![0] = IdleFrame]
            /\ UNCHANGED <<seq, last_kr, uttAccepted, sinceCommit, calls>>
       ELSE Finally([frame EXCEPT ![0] = IdleFrame])
    /\ UNCHANGED <<pending_kr, pending_task, tasks, conn, nEv, nArmed, delivered, txOutcomes, committer, script_store, threads, peer, agg, run, partials, active, heard>>

----------------------------------------------------------------------------
(* _wait_and_commit, lines 725-731 *)

\* the sleep of a task after a step of time: over, or, in the runs with steady
\* finals, first half over
Slept(tk) ==
    IF "steady_finals" \in txOutcomes /\ tk.slept = 0 /\ ~tk.expired
    THEN [tk EXCEPT !.slept = 1]
    ELSE [tk EXCEPT !.expired = TRUE]

\* time passes: every sleep in progress is over, the elapsed time grows
Tick ==
    /\ \/ \E t \in TaskIds : tasks[t].st = "sleep" /\ ~tasks[t].expired
       \/ (seq > 0 /\ sinceCommit < WindowTicks)
    /\ tasks' = [t \in TaskIds |->
                    IF tasks[t].st = "sleep" THEN Slept(tasks[t]) ELSE tasks[t]]
    /\ sinceCommit' = IF seq = 0 THEN 0 ELSE IF sinceCommit = 0 THEN 1 ELSE WindowTicks
    /\ UNCHANGED <<seq, pending_kr, pending_task, last_kr, frame, loop, loopCancel, conn,
                   nEv, nArmed, delivered, txOutcomes, committer, script_store, threads, peer, agg, calls, uttAccepted, run, partials, active, heard>>

\* variant: the task runs on without having slept
SleepOverAtOnce(tk) == TRUE

\* line 727: asyncio.sleep returns when the wait has passed
SleepOver(tk) == tk.expired

TimerFire(t) ==
    /\ tasks[t].st = "sleep" /\ SleepOver(tasks[t])
    /\ IF TimerCheck(pending_kr, tasks[t].snap)
       THEN /\ CommitEntry(frame, t, pending_kr, uttAccepted)
            /\ tasks' = [tasks EXCEPT ![t] =
                            IF Enters(pending_kr) THEN [tasks[t] EXCEPT !.st = "commit"]
                            ELSE EndedTask]
       ELSE /\ tasks' = [tasks EXCEPT ![t] = EndedTask]
            /\ UNCHANGED <<seq, last_kr, frame, uttAccepted, sinceCommit, calls>>
    /\ UNCHANGED <<pending_kr, pending_task, loop, loopCancel, conn, nEv, nArmed,
                   delivered, txOutcomes, committer, script_store, threads, peer, agg, run, partials, active, heard>>

----------------------------------------------------------------------------
(* commit_now, lines 671-718: one step per await *)

CanRun(e) ==
    /\ frame[e].pc # "idle"
    /\ IF e = 0 THEN ~loopCancel ELSE tasks[e].st = "commit"

Msg(e, shape, ch) ==
    [cid |-> frame[e].cid, seq |-> frame[e].mseq, src |-> frame[e].kr,
     en |-> frame[e].en, shape |-> shape, ch |-> ch]

(* translate_text (utils/translate.py 803-902) as commit_now sees it: it     *)
(* returns a translation, which is never the text it was given; it returns  *)
(* "" when the model answered with no content (line 873, "content or ''"); *)
(* it raises when the failure is outside its own try block (line 848).      *)
translate_text(text, outcome) ==
    IF outcome = "empty" THEN << >> ELSE <<"en">> \o text

\* lines 673-677: en is the result, or src_text when the call raised
FailOpen(src_text, outcome) ==
    IF outcome = "raise" THEN src_text ELSE translate_text(src_text, outcome)

(* lines 679-700: both messages are built from the value seq has after the   *)
(* await                                                                     *)
MessageSeq(e) == seq

(* Line 674 awaits translate_text with no timeout of its own (no wait_for,  *)
(* and the client of translate.py line 391 is built without one): a call    *)
(* the service never answers does not return.  The outcome "hang" marks     *)
(* such a call; an activation at "hung" has no further step of its own.     *)
TranslateDone(e) ==
    /\ CanRun(e) /\ frame[e].pc = "translate"
    /\ \E outcome \in txOutcomes \ {"non_object", "steady_finals"} :
        IF outcome = "hang"
        THEN frame' = [frame EXCEPT ![e].pc = "hung"]
        ELSE frame' = [frame EXCEPT ![e].pc = "echo_new",
                                    ![e].en = FailOpen(frame[e].kr, outcome),
                                    ![e].mseq = MessageSeq(e)]
    /\ UNCHANGED <<seq, pending_kr, pending_task, last_kr, tasks, loop, loopCancel, conn,
                   nEv, nArmed, delivered, sinceCommit, txOutcomes, committer, script_store, threads, peer, agg, calls, uttAccepted, run, partials, active, heard>>

(* lines 702-706: the two sends to the producer; a send on a socket the      *)
(* client has left raises, which skips the rest of the try block             *)
SendEcho(e) ==
    /\ CanRun(e) /\ frame[e].pc \in {"echo_new", "echo_legacy"}
    /\ IF conn.client = "gone"
       THEN /\ frame' = [frame EXCEPT ![e].pc = "bcast_new"]
            /\ UNCHANGED delivered
       ELSE IF frame[e].pc = "echo_new"
       THEN /\ delivered' = delivered \cup {Msg(e, "new", "echo")}
            /\ frame' = [frame EXCEPT ![e].pc = "echo_legacy"]
       ELSE /\ delivered' = delivered \cup {Msg(e, "legacy", "echo")}
            /\ frame' = [frame EXCEPT ![e].pc = "bcast_new"]
    /\ UNCHANGED <<seq, pending_kr, pending_task, last_kr, tasks, loop, loopCancel, conn,
                   nEv, nArmed, sinceCommit, txOutcomes, committer, script_store, threads, peer, agg, calls, uttAccepted, run, partials, active, heard>>

(* ConnectionManager.broadcast, socket_manager.py 17-25: the message is sent *)
(* to every socket of list(self.active), one await each; a send that raises *)
(* puts the socket on the dead list, and the dead sockets are removed from  *)
(* the active set when the loop is over.                                    *)

\* the list of the call under way, or of the call that begins with this step
HubSnap(e) == IF frame[e].snap # {} THEN frame[e].snap ELSE active
HubTodo(e) == IF frame[e].snap # {} THEN frame[e].todo ELSE active

\* variant: the first send that raises ends the loop
HubAbortOnFailure(todo, l, ok) == IF ok THEN todo \ {l} ELSE {}

\* lines 19-23: after the send to l, failed or not, the loop goes on
HubAfterSend(todo, l, ok) == todo \ {l}

\* what the next await of the call can do: a send to a socket of the list
\* returns or raises (a socket already removed is broken and raises); with
\* an empty list the call returns at once
HubChoices(e) ==
    IF HubTodo(e) = {} THEN {[l |-> "none", ok |-> TRUE]}
    ELSE {c \in [l : HubTodo(e), ok : BOOLEAN] : c.ok => c.l \in active}

HubTodoAfter(e, c) ==
    IF c.l = "none" THEN {} ELSE HubAfterSend(HubTodo(e), c.l, c.ok)

HubDeadAfter(e, c) ==
    IF c.ok THEN frame[e].dead ELSE frame[e].dead \cup {c.l}

HubHeardAfter(e, c, shape) ==
    IF c.l # "none" /\ c.ok
    THEN [heard EXCEPT ![c.l] = @ \cup {<<frame[e].cid, shape>>}]
    ELSE heard

\* the frame of a call that goes on with its next socket
HubFrameAfter(e, c) ==
    [frame EXCEPT ![e].snap = HubSnap(e), ![e].todo = HubTodoAfter(e, c),
                  ![e].dead = HubDeadAfter(e, c)]

\* line 709: manager.broadcast(live_msg_new)
BroadcastNew(e) ==
    /\ CanRun(e) /\ frame[e].pc = "bcast_new"
    /\ \E c \in HubChoices(e) :
        /\ heard' = HubHeardAfter(e, c, "new")
        /\ IF HubTodoAfter(e, c) = {}
           THEN /\ active' = active \ HubDeadAfter(e, c)
                /\ delivered' = delivered \cup {Msg(e, "new", "hub")}
                /\ frame' = [frame EXCEPT ![e].pc = "bcast_legacy", ![e].snap = {},
                                          ![e].todo = {}, ![e].dead = {}]
           ELSE /\ active' = active
                /\ delivered' = delivered
                /\ frame' = HubFrameAfter(e, c)
    /\ UNCHANGED <<seq, pending_kr, pending_task, last_kr, tasks, loop, loopCancel, conn,
                   nEv, nArmed, sinceCommit, txOutcomes, committer, script_store, threads, peer, agg, calls, uttAccepted, run, partials>>

(* lines 710-718: the last broadcast, then the clearing of the pending state *)
CommitFinish(e) ==
    /\ CanRun(e) /\ frame[e].pc = "bcast_legacy"
    /\ \E c \in HubChoices(e) :
        /\ heard' = HubHeardAfter(e, c, "legacy")
        /\ IF HubTodoAfter(e, c) = {}
           THEN /\ active' = active \ HubDeadAfter(e, c)
                /\ delivered' = delivered \cup {Msg(e, "legacy", "hub")}
                /\ pending_kr' = None
                /\ pending_task' = 0
                /\ LET ts1 == CancelIfRunning(tasks, pending_task)
                       ts2 == IF e = 0 THEN ts1 ELSE [ts1 EXCEPT ![e] = EndedTask]
                   IN /\ tasks' = ts2
                      /\ frame' = DropFrames([frame EXCEPT ![e] = IdleFrame], ts2)
                /\ loop' = IF e # 0 THEN loop
                           ELSE IF loop = "commit" THEN "recv" ELSE "done"
           ELSE /\ active' = active
                /\ delivered' = delivered
                /\ frame' = HubFrameAfter(e, c)
                /\ UNCHANGED <<pending_kr, pending_task, tasks, loop>>
    /\ UNCHANGED <<seq, last_kr, loopCancel, conn, nEv, nArmed, sinceCommit,
                   txOutcomes, committer, script_store, threads, peer, agg, calls, uttAccepted, run, partials>>

----------------------------------------------------------------------------
(* A second producer connection served by the same handler.  Each call of   *)
(* ws_stt_deepgram has its own seq (line 614), and each call of              *)
(* from_deepgram_to_server defines its own commit_now (line 662), whose      *)
(* attribute _last_kr therefore belongs to that connection.  Of the second   *)
(* connection the model keeps these two; its events are finals with          *)
(* speech_final, committed in one step.                                      *)

\* the texts the second connection's events carry
PeerTranscripts == {T_empty, T_ab, T_ab_ws, T_ab_p}

\* variant: _last_kr is one attribute shared by all connections
SharedLast(p) == last_kr

\* lines 667-669: getattr(commit_now, "_last_kr", "") of the connection's own
\* commit_now
OwnLast(p) == p.last_kr

\* lines 664-671 on the second connection
PeerCommit(p, kr) ==
    IF ~IsEmptyText(kr) /\ ~IsDuplicate(kr, OwnLast(p))
    THEN [p EXCEPT !.seq = @ + 1, !.last_kr = kr, !.n = @ + 1, !.tried = kr]
    ELSE [p EXCEPT !.n = @ + 1, !.tried = kr]

PeerEvent ==
    /\ conn.handler # "none" /\ EventsLeft
    /\ \E raw \in PeerTranscripts : peer' = PeerCommit(peer, strip(raw))
    /\ UNCHANGED <<seq, pending_kr, pending_task, last_kr, tasks, frame, loop, loopCancel,
                   conn, nEv, nArmed, delivered, sinceCommit, txOutcomes, committer, script_store, threads, agg, calls,
                   uttAccepted, run, partials, active, heard>>

----------------------------------------------------------------------------
(* SentenceAggregator (app/aggregate.py) *)

MaxCalls == 3

\* the texts given to ingest
AggTexts == {T_empty, T_ab, T_ab_ws, T_ab_p, <<"a">>}

\* lines 20-23
has_terminal_punct(t) ==
    LET r == strip(t) IN r # << >> /\ r[Len(r)] \in SENTENCE_PUNCT

\* variant: every final is flushed, whatever its ending and the time passed
ShouldFlushEveryFinal(a, t, is_final, speech_final) == speech_final \/ is_final

\* lines 38-45
should_flush(a, t, is_final, speech_final) ==
    \/ speech_final
    \/ is_final /\ (has_terminal_punct(t) \/ (~a.require_punct /\ a.waited))

\* lines 25-53; the returned value is field out (None is the empty text)
ingest(a, text, is_final, speech_final) ==
    LET t == strip(text)
        b == [a EXCEPT !.n = @ + 1,
                       !.finals = IF is_final /\ t # << >> THEN @ \cup {t} ELSE @]
    IN  IF t = << >>
        THEN [b EXCEPT !.out = << >>]
        ELSE LET w == IF a.open THEN a.waited ELSE FALSE
                 c == [b EXCEPT !.open = TRUE, !.waited = w, !.latest = t]
             IN  IF should_flush(c, t, is_final, speech_final)
                 THEN [c EXCEPT !.out = t, !.latest = << >>, !.open = FALSE,
                                !.emitted = @ \cup {t}]
                 ELSE [c EXCEPT !.out = << >>]

\* lines 55-61
force_flush(a) ==
    IF a.open /\ a.latest # << >>
    THEN [a EXCEPT !.n = @ + 1, !.out = a.latest, !.latest = << >>, !.open = FALSE,
                   !.emitted = @ \cup {a.latest}]
    ELSE [a EXCEPT !.n = @ + 1, !.out = << >>]

AggUnchanged ==
    UNCHANGED <<seq, pending_kr, pending_task, last_kr, tasks, frame, loop, loopCancel,
                conn, nEv, nArmed, delivered, sinceCommit, txOutcomes, committer, script_store, threads, peer, calls,
                uttAccepted, run, partials, active, heard>>

AggIngest ==
    /\ agg.on /\ agg.n < MaxCalls
    /\ \E text \in AggTexts, is_final \in BOOLEAN, speech_final \in BOOLEAN :
          agg' = ingest(agg, text, is_final, speech_final)
    /\ AggUnchanged

AggForceFlush ==
    /\ agg.on /\ agg.n < MaxCalls
    /\ agg' = force_flush(agg)
    /\ AggUnchanged

\* time.time() passes max_wait_ms beyond _started
AggTimePasses ==
    /\ agg.on /\ agg.open /\ ~agg.waited
    /\ agg' = [agg EXCEPT !.waited = TRUE]
    /\ AggUnchanged

----------------------------------------------------------------------------
(* Committer (app/commit.py) *)

CommitTexts == AggTexts \cup {T_ab \o <<" ">>}

\* variant: seq is incremented before the text is compared with _last
MaybeCommitCountsRepeats(c, text, is_final, speech_final) ==
    LET t == strip(text) IN
    IF t = << >> \/ ~(is_final \/ speech_final)
    THEN [c EXCEPT !.out = NoCommit, !.n = @ + 1]
    ELSE IF t = c.last
    THEN [c EXCEPT !.seq = @ + 1, !.out = NoCommit, !.n = @ + 1]
    ELSE [c EXCEPT !.seq = @ + 1, !.last = t, !.n = @ + 1,
                   !.out = [ok |-> TRUE, seq |-> c.seq + 1, text |-> t],
                   !.rets = Append(@, c.seq + 1)]

\* commit.py lines 9-19
maybe_commit(c, text, is_final, speech_final) ==
    LET t == strip(text) IN
    IF t = << >>
    THEN [c EXCEPT !.out = NoCommit, !.n = @ + 1]
    ELSE IF is_final \/ speech_final
    THEN IF t = c.last
         THEN [c EXCEPT !.out = NoCommit, !.n = @ + 1]
         ELSE [c EXCEPT !.seq = @ + 1, !.last = t, !.n = @ + 1,
                        !.out = [ok |-> TRUE, seq |-> c.seq + 1, text |-> t],
                        !.rets = Append(@, c.seq + 1)]
    ELSE [c EXCEPT !.out = NoCommit, !.n = @ + 1]

\* one call of maybe_commit
CommitterCall ==
    /\ committer.on /\ committer.n < MaxCalls
    /\ \E text \in CommitTexts, is_final \in BOOLEAN, speech_final \in BOOLEAN :
          committer' = maybe_commit(committer, text, is_final, speech_final)
    /\ UNCHANGED <<seq, pending_kr, pending_task, last_kr, tasks, frame, loop, loopCancel,
                   conn, nEv, nArmed, delivered, sinceCommit, txOutcomes, peer, agg, calls,
                   uttAccepted, run, partials, active, heard, script_store, threads>>

----------------------------------------------------------------------------
(* ScriptStore (app/services/script_store.py) *)

MaxLoads == 2
MaxMatches == 2

\* str.lower() on the letters of the model
Lower(c) == IF c = "A" THEN "a" ELSE IF c = "B" THEN "b" ELSE c

\* lines 9-11: " ".join((text or "").split()).lower()
norm(text) == LET j == norm_ws(text) IN [i \in 1 .. Len(j) |-> Lower(j[i])]

\* lines 38-44: the pairs with a source and a target that are non-empty after
\* trimming, each with its position in the list given
RECURSIVE clean(_, _)
clean(pairs, idx) ==
    IF pairs = << >> THEN << >>
    ELSE LET src == strip(Head(pairs).source)
             tgt == strip(Head(pairs).target)
         IN (IF src = << >> \/ tgt = << >> THEN << >>
             ELSE << [source |-> src, target |-> tgt, index |-> idx] >>)
            \o clean(Tail(pairs), idx + 1)

\* the length of the common run of a from i and b from j
RECURSIVE CommonRun(_, _, _, _)
CommonRun(a, b, i, j) ==
    IF i <= Len(a) /\ j <= Len(b) /\ a[i] = b[j] THEN 1 + CommonRun(a, b, i + 1, j + 1) ELSE 0

\* SequenceMatcher.find_longest_match: the longest common block, of those the
\* one that starts earliest in a, of those the one that starts earliest in b
LongestMatch(a, b) ==
    LET Blocks == {[i |-> i, j |-> j, k |-> CommonRun(a, b, i, j)] :
                        i \in 1 .. Len(a), j \in 1 .. Len(b)}
    IN CHOOSE m \in Blocks :
          \A o \in Blocks :
             \/ m.k > o.k
             \/ m.k = o.k /\ m.i < o.i
             \/ m.k = o.k /\ m.i = o.i /\ m.j <= o.j

\* SequenceMatcher.get_matching_blocks: the characters in the longest block
\* and, recursively, in the pieces to its left and to its right
RECURSIVE Matches(_, _)
Matches(a, b) ==
    IF a = << >> \/ b = << >> THEN 0
    ELSE LET m == LongestMatch(a, b)
         IN IF m.k = 0 THEN 0
            ELSE m.k + Matches(SubSeq(a, 1, m.i - 1), SubSeq(b, 1, m.j - 1))
                     + Matches(SubSeq(a, m.i + m.k, Len(a)), SubSeq(b, m.j + m.k, Len(b)))

\* SequenceMatcher(None, a, b).ratio(): 2.0 * M / T, and 1.0 for two empty texts
ratio(a, b) ==
    IF Len(a) + Len(b) = 0 THEN [n |-> 1, d |-> 1]
    ELSE [n |-> 2 * Matches(a, b), d |-> Len(a) + Len(b)]

\* x > y of two scores
ScoreGreater(x, y) == x.n * y.d > y.n * x.d

\* score >= threshold, the threshold in hundredths
ScoreAtLeast(x, threshold) == 100 * x.n >= threshold * x.d

\* lines 80-86: the first pair of the highest score above 0.0
RECURSIVE best_of(_, _, _, _)
best_of(pairs, query, best, best_score) ==
    IF pairs = << >> THEN [pair |-> best, score |-> best_score]
    ELSE LET score == ratio(norm(Head(pairs).source), query)
         IN IF ScoreGreater(score, best_score)
            THEN best_of(Tail(pairs), query, Head(pairs), score)
            ELSE best_of(Tail(pairs), query, best, best_score)

\* variant: the threshold given is stored as it is
NoClamp(threshold) == threshold

\* line 49: max(0.0, min(1.0, float(threshold)))
clamp(threshold) ==
    LET m == IF threshold < 100 THEN threshold ELSE 100
    IN IF m > 0 THEN m ELSE 0

\* lines 80-90 on the snapshot taken at lines 75-78
match_result(pairs_snapshot, threshold, version, query) ==
    LET b == best_of(pairs_snapshot, query, NoPair, ZeroScore)
    IN [kind |-> "match",
        pair |-> IF b.pair # NoPair /\ ScoreAtLeast(b.score, threshold) THEN b.pair ELSE NoPair,
        score |-> b.score, count |-> 0, threshold |-> threshold, version |-> version]

\* the lists of pairs uploaded, the thresholds given and the texts matched
RawLists ==
    { << [source |-> <<"a", " ", "b">>, target |-> <<"x">>] >>,
      << [source |-> <<" ">>, target |-> <<"x">>],
         [source |-> <<"A">>, target |-> <<"y", " ">>] >> }
ThresholdsGiven == {NoThreshold, 0 - 50, 50, 150}
Queries == { <<" ">>, <<"a">>, <<"A", " ", " ", "b">> }

StoreUnchanged ==
    UNCHANGED <<seq, pending_kr, pending_task, last_kr, tasks, frame, loop, loopCancel,
                conn, nEv, nArmed, delivered, sinceCommit, txOutcomes, committer, peer, agg,
                calls, uttAccepted, run, partials, active, heard>>

\* load, lines 38-47, and clear, lines 55-57: the thread takes the lock and
\* replaces the pairs
WriterEnter(w) ==
    /\ script_store.on /\ script_store.lock = "free" /\ script_store.version < MaxLoads
    /\ threads[w].pc = "idle"
    /\ \/ \E pairs \in RawLists, threshold \in ThresholdsGiven :
            /\ script_store' = [script_store EXCEPT !.lock = w, !.pairs = clean(pairs, 0)]
            /\ threads' = [threads EXCEPT ![w] = [@ EXCEPT !.pc = "threshold", !.op = "load",
                                                           !.arg = threshold, !.ret = NoRet]]
       \/ /\ script_store' = [script_store EXCEPT !.lock = w, !.pairs = << >>]
          /\ threads' = [threads EXCEPT ![w] =
                            [@ EXCEPT !.pc = "version", !.op = "clear", !.arg = NoThreshold,
                                      !.ret = [NoRet EXCEPT !.count = Len(script_store.pairs)]]]
    /\ StoreUnchanged

\* load, lines 48-49
WriterThreshold(w) ==
    /\ threads[w].pc = "threshold"
    /\ script_store' = IF threads[w].arg # NoThreshold
                       THEN [script_store EXCEPT !.threshold = clamp(threads[w].arg)]
                       ELSE script_store
    /\ threads' = [threads EXCEPT ![w].pc = "version"]
    /\ StoreUnchanged

\* load, lines 50-51, and clear, lines 58-59: the version is incremented, the
\* call returns and the lock is released
WriterLeave(w) ==
    /\ threads[w].pc = "version"
    /\ LET version == script_store.version + 1 IN
       /\ script_store' = [script_store EXCEPT
                              !.version = version, !.lock = "free",
                              !.gens = Append(@, [pairs |-> script_store.pairs,
                                                  threshold |-> script_store.threshold])]
       /\ threads' = [threads EXCEPT ![w] =
             [@ EXCEPT !.pc = "idle", !.n = @ + 1,
                       !.ret = IF threads[w].op = "load"
                               THEN [NoRet EXCEPT !.kind = "load",
                                                  !.count = Len(script_store.pairs),
                                                  !.threshold = script_store.threshold,
                                                  !.version = version]
                               ELSE [threads[w].ret EXCEPT !.kind = "clear",
                                                           !.version = version]]]
    /\ StoreUnchanged

\* stats, lines 61-64
Stats ==
    /\ script_store.on /\ script_store.lock = "free"
    /\ threads[Reader].pc = "idle" /\ threads[Reader].n < MaxMatches
    /\ threads' = [threads EXCEPT ![Reader] =
          [@ EXCEPT !.n = @ + 1, !.op = "stats",
                    !.ret = [NoRet EXCEPT !.kind = "stats",
                                          !.count = Len(script_store.pairs),
                                          !.threshold = script_store.threshold,
                                          !.version = script_store.version]]]
    /\ UNCHANGED script_store
    /\ StoreUnchanged

\* match, lines 71-90.  A text that is empty after _norm: line 73 reads
\* self.version, without the lock.  Any other text: the snapshot is taken
\* under the lock (75-78) and scored (80-90)
MatchCall ==
    /\ script_store.on
    /\ threads[Reader].pc = "idle" /\ threads[Reader].n < MaxMatches
    /\ \E text \in Queries :
          LET query == norm(text) IN
          IF query = << >>
          THEN threads' = [threads EXCEPT ![Reader] =
                              [@ EXCEPT !.pc = "read_threshold", !.op = "match",
                                        !.version = script_store.version, !.ret = NoRet]]
          ELSE /\ script_store.lock = "free"
               /\ threads' = [threads EXCEPT ![Reader] =
                     [@ EXCEPT !.n = @ + 1, !.op = "match",
                               !.ret = match_result(script_store.pairs, script_store.threshold,
                                                    script_store.version, query)]]
    /\ UNCHANGED script_store
    /\ StoreUnchanged

\* match, line 73: self.threshold is read, without the lock, and the call returns
MatchReadThreshold ==
    /\ threads[Reader].pc = "read_threshold"
    /\ threads' = [threads EXCEPT ![Reader] =
          [@ EXCEPT !.pc = "idle", !.n = @ + 1, !.version = 0,
                    !.ret = [NoRet EXCEPT !.kind = "match",
                                          !.version = threads[Reader].version,
                                          !.threshold = script_store.threshold]]]
    /\ UNCHANGED script_store
    /\ StoreUnchanged

----------------------------------------------------------------------------
(* The setup of the handler (lines 606-615) *)

\* variant: the failed setup closes the client socket without a message
ConnectFailedSilently(c) ==
    [c EXCEPT !.dg = "failed", !.client = "closed", !.handler = "returned"]

\* lines 609-612: connect_to_deepgram raised; one error message goes to the
\* client (err counts them), the socket is closed and the handler returns
ConnectFailed(c) ==
    [c EXCEPT !.dg = "failed", !.client = "closed", !.handler = "returned", !.err = @ + 1]

\* lines 614-615, 789-791: the connection's state and its two flows
Connected(c) == [c EXCEPT !.dg = "open", !.handler = "waiting"]

\* lines 607-615: the attempt to connect to the ASR service
Connect ==
    /\ conn.handler = "connecting"
    /\ \E ok \in BOOLEAN :
          IF ok
          THEN conn' = Connected(conn) /\ loop' = "recv"
          ELSE conn' = ConnectFailed(conn) /\ loop' = loop
    /\ UNCHANGED <<seq, pending_kr, pending_task, last_kr, tasks, frame, loopCancel,
                   nEv, nArmed, delivered, sinceCommit, txOutcomes, committer, script_store, threads, peer, agg, calls, uttAccepted, run, partials, active, heard>>

----------------------------------------------------------------------------
(* from_client_to_deepgram (lines 617-639) and the handler (lines 789-796) *)

\* variant: the send of CloseStream on the closed ASR stream raises out of the
\* receive loop, whose finally block sets the closed event
FinalizeOnClosedRaises(c) == [c EXCEPT !.fin = 2, !.closed = TRUE]

\* lines 632-637: a "finalize" that finds the ASR stream closed; dg.send raises
\* and the bare except swallows it.  fin counts the finalize messages of the
\* connected client (2: more than one)
FinalizeOnClosed(c) == [c EXCEPT !.fin = 2]

\* a "finalize" text message: CloseStream is sent and the ASR stream ends
ClientFinalize ==
    /\ conn.handler = "waiting" /\ conn.client = "open" /\ conn.fin < 2
    /\ conn' = IF conn.dg = "open"
               THEN [conn EXCEPT !.dg = "ended", !.fin = 1]
               ELSE FinalizeOnClosed(conn)
    /\ UNCHANGED <<seq, pending_kr, pending_task, last_kr, tasks, frame, loop, loopCancel,
                   nEv, nArmed, delivered, sinceCommit, txOutcomes, committer, script_store, threads, peer, agg, calls, uttAccepted, run, partials, active, heard>>

\* websocket.disconnect: dg.close() is awaited (fin counts for a connected
\* client only)
ClientDisconnect ==
    /\ conn.handler # "connecting" /\ conn.client = "open"
    /\ conn' = [conn EXCEPT !.client = "gone", !.dg = "ended", !.fin = 0]
    /\ UNCHANGED <<seq, pending_kr, pending_task, last_kr, tasks, frame, loop, loopCancel,
                   nEv, nArmed, delivered, sinceCommit, txOutcomes, committer, script_store, threads, peer, agg, calls, uttAccepted, run, partials, active, heard>>

\* the finally block of from_client_to_deepgram: closed.set()
ConsumerExit ==
    /\ conn.client = "gone" /\ ~conn.closed
    /\ conn' = [conn EXCEPT !.closed = TRUE]
    /\ UNCHANGED <<seq, pending_kr, pending_task, last_kr, tasks, frame, loop, loopCancel,
                   nEv, nArmed, delivered, sinceCommit, txOutcomes, committer, script_store, threads, peer, agg, calls, uttAccepted, run, partials, active, heard>>

\* lines 791-796: closed.wait() returns, both flows are cancelled, the handler returns
HandlerCancel ==
    /\ conn.closed /\ conn.handler = "waiting"
    /\ conn' = [conn EXCEPT !.handler = "returned"]
    /\ loopCancel' = (loop # "done")
    /\ UNCHANGED <<seq, pending_kr, pending_task, last_kr, tasks, frame, loop,
                   nEv, nArmed, delivered, sinceCommit, txOutcomes, committer, script_store, threads, peer, agg, calls, uttAccepted, run, partials, active, heard>>

----------------------------------------------------------------------------

Next ==
    \/ Connect
    \/ LoopEvent
    \/ LoopDropMessage
    \/ LoopStreamEnd
    \/ LoopCancelLands
    \/ Tick
    \/ \E t \in TaskIds : TimerFire(t)
    \/ \E e \in Executors : TranslateDone(e)
    \/ \E e \in Executors : SendEcho(e)
    \/ \E e \in Executors : BroadcastNew(e)
    \/ \E e \in Executors : CommitFinish(e)
    \/ PeerEvent
    \/ AggIngest
    \/ AggForceFlush
    \/ AggTimePasses
    \/ CommitterCall
    \/ \E w \in Writers : WriterEnter(w)
    \/ \E w \in Writers : WriterThreshold(w)
    \/ \E w \in Writers : WriterLeave(w)
    \/ Stats
    \/ MatchCall
    \/ MatchReadThreshold
    \/ ClientFinalize
    \/ ClientDisconnect
    \/ ConsumerExit
    \/ HandlerCancel

Spec == Init /\ [][Next]_vars

\* the runs in which translate_text may also return "" or raise
SpecTx == InitTx /\ [][Next]_vars

(* The asyncio scheduler runs every flow that is ready: a step of the event *)
(* loop, of a debounce task or of a commit that stays possible is taken,    *)
(* and time passes.  What the ASR service and the client send is not forced.*)
Fairness ==
    /\ WF_vars(Connect)
    /\ WF_vars(Tick)
    /\ WF_vars(LoopStreamEnd)
    /\ WF_vars(LoopCancelLands)
    /\ WF_vars(ConsumerExit)
    /\ WF_vars(HandlerCancel)
    /\ \A t \in TaskIds : WF_vars(TimerFire(t))
    /\ \A e \in Executors :
          /\ WF_vars(TranslateDone(e))
          /\ WF_vars(SendEcho(e))
          /\ WF_vars(BroadcastNew(e))
          /\ WF_vars(CommitFinish(e))

\* the runs that may go on for MaxEvents events after a first commit
SpecLate == InitLate /\ [][Next]_vars

\* the runs in which the ASR stream may carry JSON that is not an object
SpecMsg == InitMsg /\ [][Next]_vars

\* the runs in which empty final events may arrive for ever
SpecSteady == InitSteady /\ [][Next]_vars /\ Fairness

\* the runs in which a call of translate_text may never return
SpecHang == InitHang /\ [][Next]_vars /\ Fairness

\* the runs with listeners on the hub, whose sockets may fail
SpecHub == InitHub /\ [][Next]_vars

TypeOK ==
    /\ seq \in 0 .. MaxEvents
    /\ pending_task \in 0 .. MaxEvents
    /\ loop \in {"off", "recv", "commit", "flush", "done"}
    /\ nArmed <= nEv /\ nEv <= MaxEvents

----------------------------------------------------------------------------
(* Vocabulary of the properties *)

Outstanding(ts) == {t \in TaskIds : ts[t].st \in {"sleep", "commit"}}

Quiescent ==
    /\ loop \in {"recv", "done"} /\ ~loopCancel
    /\ \A e \in Executors : frame[e].pc = "idle"
    /\ Outstanding(tasks) = {}

DeliveredCommits == {d.cid : d \in delivered}

\* this step is the end of executor e's commit_now (its last message goes out)
Completed(e) ==
    /\ frame[e].pc = "bcast_legacy"
    /\ Msg(e, "legacy", "hub") \in delivered' \ delivered

\* this step is the end of task t's sleep (not its cancellation)
Fired(t) ==
    /\ tasks[t].st = "sleep" /\ tasks'[t].st # "sleep"
    /\ nArmed' = nArmed /\ delivered' = delivered

SnapshotValid(t) ==
    pending_kr # None /\ norm_ws(pending_kr) = norm_ws(tasks[t].snap)

\* this step calls commit_now with a text equal, after normalisation, to the
\* last committed text (every call site passes the pending text)
DupAttempt ==
    /\ calls' = calls + 1
    /\ pending_kr' # None
    /\ norm_ws(pending_kr') = norm_ws(last_kr)

\* candidate c is a prefix or suffix of l and shorter by at least 6 characters
StaleSubset(c, l) ==
    /\ Len(norm_ws(c)) + 6 <= Len(norm_ws(l))
    /\ (IsPrefix(norm_ws(c), norm_ws(l)) \/ IsSuffix(norm_ws(c), norm_ws(l)))

----------------------------------------------------------------------------
(* C1: the sequence numbers of the messages handed to the producer socket  *)
(* and the hub are strictly increasing in delivery order: a message of one *)
(* commit never follows a message of another commit that carries the same  *)
(* or a larger sequence number.                                            *)
C1_DeliveredSeqStrictlyIncreasing ==
    [][\A m \in delivered' \ delivered :
         \A d \in delivered : d.cid # m.cid => d.seq < m.seq]_vars

(* C2: once the connection is quiescent, every commit that incremented seq *)
(* has been handed to the output sink: the commits delivered are 1..seq.   *)
C2_EveryAcceptedCommitDelivered ==
    Quiescent => DeliveredCommits = 1 .. seq

(* C3: no second commit is accepted for the same pending utterance: a step *)
(* that increments seq while the pending text stays the same (after        *)
(* normalisation) happens only if that utterance has had no accepted       *)
(* commit yet.                                                             *)
C3_OneAcceptPerUtterance ==
    [][(seq' # seq /\ pending_kr # None /\ norm_ws(pending_kr') = norm_ws(pending_kr))
         => ~uttAccepted]_vars

\* the timer of the pending text has fired and returned without a commit
\* while the event loop is committing that same text
C3_Witness ==
    /\ seq = 1 /\ frame[0].pc # "idle"
    /\ pending_kr # None /\ norm_ws(frame[0].kr) = norm_ws(pending_kr)
    /\ pending_task # 0 /\ tasks[pending_task].st = "ended"
    /\ calls = 2

(* C4: when an accepted commit completes, the pending text is empty and no *)
(* debounce task of the connection is outstanding.                         *)
C4_CommitClearsPendingAndTimer ==
    [][\A e \in Executors :
         Completed(e) => (pending_kr' = None /\ pending_task' = 0
                          /\ Outstanding(tasks') = {})]_vars

\* a commit by the event loop has completed while a timer had been armed
C4_Witness ==
    /\ nArmed >= 1 /\ seq = 1 /\ loop = "recv" /\ pending_kr = None
    /\ \E d \in delivered : d.shape = "legacy" /\ d.ch = "hub"
    /\ tasks[1].st = "ended"
    /\ calls = 1

(* C5: at most one debounce task is outstanding, and it is the one         *)
(* pending_task refers to: a superseded task is never sleeping or          *)
(* committing.                                                             *)
C5_AtMostOneTimer ==
    /\ Cardinality(Outstanding(tasks)) <= 1
    /\ \A t \in Outstanding(tasks) : t = pending_task

\* the first task was cancelled by re-arming: it ended without any commit call
C5_Witness ==
    /\ nArmed = 2 /\ tasks[1].st = "ended" /\ tasks[2].st = "sleep"
    /\ calls = 0

(* C6: when a task's sleep ends it calls commit_now exactly if the pending *)
(* text is non-empty and equal, after whitespace normalisation, to its     *)
(* snapshot; the call commits the pending text unless it is a duplicate of *)
(* the last committed text; otherwise the step changes neither seq,        *)
(* pending text, last committed text nor the delivered messages.           *)
C6_TimerFireRevalidates ==
    [][\A t \in TaskIds :
         Fired(t) =>
            /\ (calls' = calls + 1) <=> SnapshotValid(t)
            /\ (seq' = seq + 1 /\ last_kr' = pending_kr /\ frame'[t].kr = pending_kr)
                    <=> (SnapshotValid(t) /\ norm_ws(pending_kr) # norm_ws(last_kr))
            /\ seq' \in {seq, seq + 1}
            /\ ~SnapshotValid(t) =>
                    UNCHANGED <<seq, pending_kr, last_kr, delivered, frame, calls>>]_vars

\* a task's sleep has ended after the pending text changed under it
C6_Witness ==
    /\ \E t \in TaskIds : t = pending_task /\ tasks[t].st = "ended"
    /\ frame[0].pc # "idle" /\ frame[0].kr = strip(T_ab_p)
    /\ calls = 1 /\ nArmed = 1

(* C7: two identical final transcripts in direct succession yield exactly  *)
(* one commit: once quiescent, seq has advanced by one and one commit has  *)
(* been delivered.                                                         *)
C7_TwoIdenticalFinalsOneCommit ==
    (Quiescent /\ run.same /\ run.n = 2)
        => (seq = 1 /\ Cardinality(DeliveredCommits) = 1)

C9_SubsetSuppressedInsideWindow ==
    [][(calls' = calls + 1 /\ seq > 0 /\ StaleSubset(pending_kr', last_kr))
         => ((seq' = seq + 1) <=> (sinceCommit >= WindowTicks))]_vars

(* C10 as stated: a final event with speech_final commits at once, unless  *)
(* the text is shorter than 14 characters, and then it arms the timer      *)
(* instead.                                                                *)
C10_SpeechFinalHoldsShortClause ==
    [][\A raw \in Transcripts :
         (LoopEventWith(raw, TRUE, TRUE) /\ pending_kr' # None) =>
            IF Len(norm_ws(pending_kr')) < 14
            THEN calls' = calls /\ nArmed' = nArmed + 1
            ELSE calls' = calls + 1 /\ nArmed' = nArmed]_vars

(* C10 amended: a final event with speech_final and non-empty pending text *)
(* calls commit_now in the same step, whatever the length of the text, and *)
(* arms no timer; the call commits the pending text unless it is a         *)
(* duplicate.                                                              *)
C10_SpeechFinalCommitsAtOnce ==
    [][\A raw \in Transcripts :
         (LoopEventWith(raw, TRUE, TRUE) /\ pending_kr' # None) =>
            /\ calls' = calls + 1
            /\ nArmed' = nArmed /\ tasks' = tasks /\ pending_task' = pending_task
            /\ (norm_ws(pending_kr') # norm_ws(last_kr)) =>
                    (seq' = seq + 1 /\ loop' = "commit" /\ frame'[0].kr = pending_kr')]_vars

\* a short text was committed by a speech_final event: no timer was ever armed
C10_Witness ==
    /\ loop = "commit" /\ frame[0].pc = "translate"
    /\ frame[0].kr = T_ab /\ Len(norm_ws(frame[0].kr)) < 14
    /\ nArmed = 0 /\ seq = 1

----------------------------------------------------------------------------
(* Vocabulary of the classifier properties *)

\* the sentence-terminal marks: . ? ! and the ellipsis, and the full-width
\* period, question mark and exclamation mark
TerminalMarks == {".", "?", "!", "ellipsis", "fw_period", "fw_question", "fw_excl"}

EndsWithTerminalMark(t) == t # << >> /\ t[Len(t)] \in TerminalMarks

(* C11: a final event without speech_final whose text ends with a          *)
(* sentence-terminal mark makes that text the pending text and calls       *)
(* commit_now with it in the same step; no task is created or changed.     *)
(* The call commits the text unless it repeats the last committed text.    *)
(* Every terminal mark is classified this way.                             *)
C11_TerminalMarkCommitsAtOnce ==
    [][/\ \A raw \in Transcripts :
            (LoopEventWith(raw, TRUE, FALSE) /\ EndsWithTerminalMark(strip(raw))) =>
               /\ pending_kr' = strip(raw)
               /\ calls' = calls + 1
               /\ nArmed' = nArmed /\ tasks' = tasks /\ pending_task' = pending_task
               /\ (norm_ws(strip(raw)) # norm_ws(last_kr)) =>
                       (seq' = seq + 1 /\ loop' = "commit" /\ frame'[0].kr = strip(raw))
       /\ \A m \in TerminalMarks : FlushPolicy(FALSE, T_ab \o <<m>>) = "commit"]_vars

\* a text that ends with a period is being committed by the event loop as
\* the first thing this connection does: no timer was ever armed
C11_Witness ==
    /\ loop = "commit" /\ frame[0].pc = "translate"
    /\ frame[0].kr = T_ab_p /\ pending_kr = T_ab_p
    /\ nArmed = 0 /\ seq = 1 /\ calls = 1 /\ nEv = 1


\* the sentence-final endings a classifier of Korean would recognise
KoreanEndings == {<<"seup", "ni", "da">>}

EndsWithKoreanEnding(t) == \E e \in KoreanEndings : IsSuffix(e, t)

\* the debounce task that this step created for the text
ArmedFor(text) ==
    /\ nArmed' = nArmed + 1 /\ pending_task' = nArmed'
    /\ tasks'[pending_task'].st = "sleep" /\ ~tasks'[pending_task'].expired
    /\ tasks'[pending_task'].snap = text

OneEventOnTimer == nEv = 1 /\ nArmed = 1 /\ conn.dg = "open"

\* the messages of one commit: both shapes to the producer socket and the hub
CommitMessages(cid, text) ==
    {[cid |-> cid, seq |-> cid, src |-> text, en |-> translate_text(text, "translated"),
      shape |-> sh, ch |-> ch] : sh \in {"new", "legacy"}, ch \in {"echo", "hub"}}

(* C13: debounce.  While the ASR stream is open and no further event       *)
(* arrives, the text a final event left on the timer is not committed      *)
(* before the timer's wait is over: no step calls commit_now while the     *)
(* pending task sleeps with its wait not yet over.  When the wait is over  *)
(* and the pending text is still the snapshot, the task commits it (unless *)
(* it repeats the last committed text).  For the first event of a          *)
(* connection: nothing is committed or delivered until the task has run,   *)
(* the task's commit is the only one, and when the task has ended exactly  *)
(* the messages of commit 1 with that text have been delivered and the     *)
(* pending text is empty.                                                  *)
C13_DebounceCommitsOnceOnExpiry ==
    [][/\ (/\ pending_task # 0 /\ tasks[pending_task].st = "sleep"
           /\ ~tasks[pending_task].expired
           /\ nEv' = nEv /\ conn.dg = "open") =>
              (calls' = calls /\ seq' = seq)
       /\ \A t \in TaskIds :
            (Fired(t) /\ tasks[t].expired /\ pending_kr = tasks[t].snap
               /\ norm_ws(pending_kr) # norm_ws(last_kr)) =>
                  (/\ calls' = calls + 1 /\ seq' = seq + 1
                   /\ tasks'[t].st = "commit" /\ frame'[t].kr = tasks[t].snap)
       /\ OneEventOnTimer' =>
            /\ tasks'[1].st = "sleep" =>
                  (calls' = 0 /\ seq' = 0 /\ delivered' = {} /\ pending_kr' = run'.text)
            /\ tasks'[1].st = "commit" =>
                  (/\ calls' = 1 /\ seq' = 1 /\ frame'[1].kr = run'.text
                   /\ delivered' \subseteq CommitMessages(1, run'.text))
            /\ tasks'[1].st = "ended" =>
                  (/\ calls' = 1 /\ seq' = 1 /\ pending_kr' = None
                   /\ delivered' = CommitMessages(1, run'.text))]_vars

\* the timer of the only event has run and its commit is delivered in full
C13_Witness ==
    /\ OneEventOnTimer /\ tasks[1].st = "ended"
    /\ seq = 1 /\ calls = 1 /\ pending_kr = None
    /\ delivered = CommitMessages(1, T_ab)


\* the texts the classifier would hold longer: every text of this connection
\* is Korean (line 674), so a short or an unterminated one is a CJK clause
ExtendedHoldCase(text) ==
    Len(norm_ws(text)) < 14 \/ ~EndsWithTerminalMark(rstrip(text))

----------------------------------------------------------------------------
(* Vocabulary of the event properties *)

\* the text this step evaluates for commit is exactly txt: it is the pending
\* text, and the call of commit_now or the task the step made carries it
EvaluatedText(txt) ==
    /\ pending_kr' = txt
    /\ (nArmed' # nArmed) => tasks'[pending_task'].snap = txt
    /\ (seq' # seq) => (frame'[0].kr = txt /\ last_kr' = txt)

(* C15 as stated: after any final event the text evaluated for commit is   *)
(* that event's transcript.                                                *)
C15_EveryFinalReplacesPending ==
    [][\A raw \in Transcripts, sf \in BOOLEAN :
         LoopEventWith(raw, TRUE, sf) => EvaluatedText(strip(raw))]_vars

(* C15 amended: a final event with a non-empty transcript replaces the     *)
(* pending text wholesale: the text evaluated is exactly the stripped      *)
(* transcript, nothing of the earlier pending text is kept.  A final event *)
(* with an empty transcript leaves the pending text as it is, and that     *)
(* earlier text is the one evaluated.                                      *)
C15_NonEmptyFinalReplacesPending ==
    [][\A raw \in Transcripts, sf \in BOOLEAN :
         LoopEventWith(raw, TRUE, sf) =>
            IF strip(raw) # << >>
            THEN EvaluatedText(strip(raw))
            ELSE EvaluatedText(pending_kr)]_vars

\* a second final event replaced a pending text of another utterance, and
\* the commit in progress carries the second transcript alone
C15_Witness ==
    /\ nEv = 2 /\ nArmed = 1 /\ tasks[1].snap = T_ab
    /\ pending_kr = T_long /\ frame[0].kr = T_long /\ loop = "commit"
    /\ run.same = FALSE


(* C16: a non-final event, whatever its text and its speech_final flag,    *)
(* changes neither the pending text, the tasks, the last committed text    *)
(* nor the sequence number, calls commit_now not at all and delivers no    *)
(* commit message; the only thing it may send is the preview of its own    *)
(* transcript.                                                             *)
C16_InterimChangesNothing ==
    [][\A raw \in PartialTranscripts, sf \in BOOLEAN :
         LoopEventWith(raw, FALSE, sf) =>
            /\ UNCHANGED <<seq, pending_kr, pending_task, last_kr, tasks, nArmed,
                           frame, loop, calls, delivered>>
            /\ partials' \subseteq partials \cup {strip(raw)}]_vars

\* an interim transcript was previewed while another text waits on its timer
C16_Witness ==
    /\ partials = {T_ab} /\ nEv = 2
    /\ pending_kr = T_long /\ pending_task = 1 /\ tasks[1].st = "sleep"
    /\ tasks[1].snap = T_long /\ calls = 0 /\ seq = 0


----------------------------------------------------------------------------
(* Vocabulary of the teardown properties *)

\* this step is the return of the connection handler
HandlerReturns == conn.handler = "waiting" /\ conn'.handler = "returned"

\* this step takes the event loop into its finally block
EntersFinally == loop \in {"recv", "commit"} /\ loop' \in {"flush", "done"}

(* C17: teardown flush.  When the handler returns while the pending text   *)
(* is non-empty, the flush of the event loop has already been attempted;   *)
(* the flush is one call of commit_now when the pending text is non-empty  *)
(* and none when it is empty.                                              *)
C17_FlushBeforeHandlerReturns ==
    [][/\ (HandlerReturns /\ pending_kr # None) => loop \in {"flush", "done"}
       /\ EntersFinally =>
             IF pending_kr # None
             THEN calls' = calls + 1
             ELSE calls' = calls /\ seq' = seq /\ delivered' = delivered]_vars


(* C18: when the connection handler has returned, no debounce task of the  *)
(* connection sleeps or commits, and from then on no step of the           *)
(* connection accepts a commit or delivers a message.                      *)
C18_NothingOutstandingAfterTeardown ==
    [][/\ conn'.handler = "returned" => Outstanding(tasks') = {}
       /\ conn.handler = "returned" =>
             (seq' = seq /\ delivered' = delivered)]_vars


----------------------------------------------------------------------------
(* Vocabulary of the translation properties *)

\* executor e's call of translate_text has raised: en is the source text
RaisedIn(fr, e) == fr[e].pc \notin {"idle", "translate"} /\ fr[e].en = fr[e].kr

\* this step is the raise of executor e's call of translate_text
Raises(e) == frame[e].pc = "translate" /\ RaisedIn(frame', e)

(* C19: translation fails open.  When translate_text raises for an         *)
(* accepted commit, the messages of that commit carry the source text and  *)
(* the commit's own sequence number; the commit is not dropped before its  *)
(* last message has gone out; and when it completes the pending text is    *)
(* empty, no task is outstanding and the event loop is receiving again.    *)
C19_RaisedTranslationStillDelivered ==
    [][\A e \in Executors :
         /\ Raises(e) =>
               (frame'[e].en = frame[e].kr /\ frame'[e].mseq = frame[e].cid)
         /\ RaisedIn(frame, e) =>
               (\/ Completed(e)
                \/ (RaisedIn(frame', e) /\ frame'[e].cid = frame[e].cid))
         /\ (RaisedIn(frame, e) /\ Completed(e)) =>
               /\ pending_kr' = None /\ pending_task' = 0 /\ Outstanding(tasks') = {}
               /\ e = 0 => loop' \in {"recv", "done"}]_vars

(* C20: the text delivered for an accepted commit is never empty.          *)
C20_DeliveredTextNeverEmpty ==
    \A m \in delivered : m.en # << >>


----------------------------------------------------------------------------
(* C21: a translation call that is slow or never returns does not stall    *)
(* the connection: whenever the event loop is inside a commit it comes     *)
(* back to receiving (or ends) after a while, so that the following ASR    *)
(* events are processed.                                                   *)
C21_LoopLeavesEveryCommit ==
    (loop = "commit") ~> (loop # "commit")


----------------------------------------------------------------------------
(* Vocabulary of the hub properties *)

HubPc(shape) == IF shape = "new" THEN "bcast_new" ELSE "bcast_legacy"

\* this step is the return of executor e's broadcast call of that shape
HubReturns(e, shape) ==
    /\ frame[e].pc = HubPc(shape)
    /\ Msg(e, shape, "hub") \in delivered' \ delivered

\* this step is a send of executor e's broadcast call that raised, and the
\* call has more sockets on its list
HubSendFails(e, shape) ==
    /\ frame[e].pc = HubPc(shape) /\ frame'[e].pc = HubPc(shape)
    /\ frame'[e].dead # frame[e].dead

(* C22: in a broadcast a send that raises does not end the call: the other *)
(* sockets of its list stay on the list, and nothing of the commit         *)
(* changes.  When the call returns, every socket that was active when it   *)
(* began has been sent the message or is no longer in the active set, and  *)
(* every socket whose send raised is out of the active set.  The commit    *)
(* goes on as without failures: after the first call the second one        *)
(* follows for the same commit, after the second the pending text is       *)
(* empty and no task is outstanding; seq is untouched.                     *)
C22_ListenerFailureIsolated ==
    [][\A e \in Executors, shape \in {"new", "legacy"} :
         /\ HubSendFails(e, shape) =>
               /\ \E l \in HubTodo(e) :
                     /\ frame'[e].dead = frame[e].dead \cup {l}
                     /\ frame'[e].todo = HubTodo(e) \ {l}
               /\ frame'[e].snap = HubSnap(e) /\ frame'[e].cid = frame[e].cid
               /\ UNCHANGED <<seq, last_kr, pending_kr, pending_task, tasks, loop,
                              delivered, heard>>
         /\ HubReturns(e, shape) =>
               /\ \A l \in HubSnap(e) :
                     <<frame[e].cid, shape>> \in heard'[l] \/ l \notin active'
               /\ \A l \in frame[e].dead : l \notin active'
               /\ seq' = seq /\ last_kr' = last_kr
               /\ IF shape = "new"
                  THEN /\ frame'[e].pc = "bcast_legacy" /\ frame'[e].cid = frame[e].cid
                       /\ UNCHANGED <<pending_kr, pending_task, tasks, loop>>
                  ELSE /\ pending_kr' = None /\ pending_task' = 0
                       /\ Outstanding(tasks') = {}]_vars

\* the send to l1 raised in the first broadcast of commit 1: l1 was removed
\* and heard nothing, l2 heard both messages, and the commit has completed
C22_Witness ==
    /\ active = {"l2"} /\ heard["l1"] = {}
    /\ heard["l2"] = {<<1, "new">>, <<1, "legacy">>}
    /\ seq = 1 /\ calls = 1 /\ pending_kr = None /\ loop = "recv"
    /\ \A e \in Executors : frame[e].pc = "idle"


----------------------------------------------------------------------------
(* Vocabulary of the finalize properties *)

\* the client has sent "finalize" and is still connected: CloseStream went
\* out and the ASR stream has ended
Finalized == conn.client = "open" /\ conn.dg = "ended"

\* this step is the event loop's reaction to the end of the stream
LoopSeesStreamEnd == loop = "recv" /\ ~loopCancel /\ loop' # "recv"

(* C23: after a finalize the event loop's next step evaluates the pending  *)
(* text: with a non-empty pending text it calls commit_now with it at      *)
(* once, which commits it unless it repeats the last committed text; no    *)
(* further event and no expiry of the debounce task is needed.  With an    *)
(* empty pending text the loop ends without a call.                        *)
C23_FinalizeEvaluatesPending ==
    [][(Finalized /\ LoopSeesStreamEnd) =>
         IF pending_kr # None
         THEN /\ calls' = calls + 1 /\ nEv' = nEv /\ tasks' = tasks
              /\ IF norm_ws(pending_kr) # norm_ws(last_kr)
                 THEN /\ seq' = seq + 1 /\ loop' = "flush"
                      /\ frame'[0].pc = "translate" /\ frame'[0].kr = pending_kr
                 ELSE seq' = seq /\ loop' = "done"
         ELSE calls' = calls /\ seq' = seq /\ loop' = "done"]_vars

\* after a finalize the pending text is being committed by the event loop
\* while its debounce task still sleeps, the wait not over
C23_Witness ==
    /\ Finalized /\ loop = "flush" /\ frame[0].pc = "translate"
    /\ frame[0].kr = T_ab /\ pending_kr = T_ab
    /\ pending_task = 1 /\ tasks[1].st = "sleep" /\ ~tasks[1].expired
    /\ seq = 1 /\ calls = 1


\* this step is a further finalize message of the connected client
RepeatedFinalize == conn.fin = 1 /\ conn'.fin = 2

----------------------------------------------------------------------------
(* Vocabulary of the setup properties *)

\* this step is an event of the second producer connection
PeerActs == peer' # peer

\* this step is the failure of the connection to the ASR service
SetupFails == conn.handler = "connecting" /\ conn'.dg = "failed"

\* the connection has no aggregation state, no task and no flow
NothingCreated ==
    /\ seq = 0 /\ pending_kr = None /\ pending_task = 0 /\ last_kr = None
    /\ tasks = [t \in TaskIds |-> NoTask]
    /\ frame = [e \in Executors |-> IdleFrame]
    /\ loop = "off" /\ ~loopCancel /\ ~conn.closed
    /\ calls = 0 /\ nEv = 0 /\ nArmed = 0 /\ delivered = {}

(* C25: when the connection to the ASR service fails at setup, the client  *)
(* gets exactly one error message, its socket is closed and the handler    *)
(* returns; the connection then has no aggregation state, no task and no   *)
(* flow and takes no further step.  The hub's listeners, what they have    *)
(* received and the second producer connection are unchanged by the        *)
(* failure, and the second connection goes on taking its events.           *)
C25_SetupFailureCreatesNothing ==
    [][/\ SetupFails =>
            /\ conn'.err = 1 /\ conn'.client = "closed" /\ conn'.handler = "returned"
            /\ NothingCreated'
            /\ UNCHANGED <<active, heard, peer>>
       /\ conn.dg = "failed" =>
            /\ UNCHANGED <<seq, pending_kr, pending_task, last_kr, tasks, frame, loop,
                           loopCancel, conn, nEv, nArmed, delivered, calls, active, heard>>
            /\ PeerActs]_vars

\* the setup has failed: one error message, socket closed, nothing created,
\* and the second connection has committed since
C25_Witness ==
    /\ conn.dg = "failed" /\ conn.err = 1 /\ conn.client = "closed"
    /\ conn.handler = "returned" /\ NothingCreated
    /\ peer.seq = 2


----------------------------------------------------------------------------
(* Vocabulary of the message properties *)

\* this step takes a message from the ASR stream that is not handled as a
\* Results event with alternatives
TakesOtherMessage == nEv' = nEv + 1 /\ ~LoopEvent

(* C26: a message of the ASR stream that is not a Results event with       *)
(* alternatives causes no commit and leaves the pending text, the debounce *)
(* task, the last committed text and the sequence number unchanged, and    *)
(* the event loop goes on receiving.                                       *)
C26_OtherMessageDropped ==
    [][TakesOtherMessage =>
         /\ UNCHANGED <<seq, pending_kr, pending_task, last_kr, tasks, frame,
                        delivered, calls>>
         /\ loop' = "recv"]_vars


----------------------------------------------------------------------------
(* Vocabulary of the empty-text property *)

\* texts that are empty or hold white space only
BlankTexts == {T_empty, <<" ">>, <<" ", " ">>}

(* C27: every message handed to the client or the hub, and every commit in *)
(* progress, has a source text that is not empty after trimming; a call of *)
(* commit_now with an empty or white-space-only text does not pass the     *)
(* entry tests in any state, so it takes no sequence number.               *)
C27_CommittedTextNeverBlank ==
    /\ \A d \in delivered : strip(d.src) # << >>
    /\ \A e \in Executors : frame[e].pc # "idle" => strip(frame[e].kr) # << >>
    /\ seq > 0 => strip(last_kr) # << >>
    /\ \A kr \in BlankTexts : ~Enters(kr)

\* a commit was delivered in full and its text is the last committed text, so
\* that the de-dup test would let a blank text through
C27_Witness ==
    /\ seq = 1 /\ last_kr = T_ab
    /\ \E d \in delivered : d.src = T_ab /\ d.shape = "legacy" /\ d.ch = "hub"
    /\ \A kr \in BlankTexts : ~IsDuplicate(kr, last_kr)


----------------------------------------------------------------------------
(* Vocabulary of the two-connection property *)

\* this step is a call of commit_now on the first connection that is refused
Suppressed == calls' = calls + 1 /\ seq' = seq

(* C28: the two producer connections share no aggregation state.  An event *)
(* of the second changes nothing of the first, and a step of the first     *)
(* changes nothing of the second.  A text is suppressed on a connection    *)
(* only when it repeats that connection's own last committed text, so a    *)
(* text committed on one is still accepted on the other, and on each       *)
(* connection the first accepted commit takes number 1.                    *)
C28_StatePerConnection ==
    [][/\ PeerActs =>
            /\ UNCHANGED <<seq, pending_kr, pending_task, last_kr, tasks, frame, loop,
                           loopCancel, conn, nEv, nArmed, delivered, calls, uttAccepted>>
            /\ IF strip(peer'.tried) # << >>
                  /\ norm_ws(peer'.tried) # norm_ws(peer.last_kr)
               THEN peer'.seq = peer.seq + 1 /\ peer'.last_kr = peer'.tried
               ELSE peer'.seq = peer.seq /\ peer'.last_kr = peer.last_kr
       /\ Suppressed => norm_ws(pending_kr') = norm_ws(last_kr)
       /\ (calls' = calls + 1 /\ norm_ws(pending_kr') # norm_ws(last_kr)) => seq' = seq + 1
       /\ (seq = 0 /\ seq' # seq) => seq' = 1
       /\ (peer.seq = 0 /\ peer'.seq # 0) => peer'.seq = 1]_vars

\* both connections have committed the same text, each with number 1
C28_Witness ==
    /\ seq = 1 /\ last_kr = T_ab /\ peer.seq = 1 /\ peer.last_kr = T_ab
    /\ \E d \in delivered : d.src = T_ab /\ d.shape = "legacy" /\ d.ch = "hub"


----------------------------------------------------------------------------
(* C29: every text a SentenceAggregator has returned, from ingest or from  *)
(* force_flush, is the text of an event it was given with is_final true.   *)
C29_OnlyFinalsEmitted == agg.emitted \subseteq agg.finals


----------------------------------------------------------------------------
(* C30: every message handed to the producer socket or the hub carries the *)
(* sequence number its own commit took when it was accepted, whatever was  *)
(* accepted while its translation was awaited, and the messages of one     *)
(* commit, of the new and of the legacy shape, carry the same number.      *)
C30_MessageCarriesOwnSeq ==
    /\ \A d \in delivered : d.seq = d.cid
    /\ \A d1, d2 \in delivered : d1.cid = d2.cid => d1.seq = d2.seq


----------------------------------------------------------------------------
(* Vocabulary of the empty-final properties *)

\* this step handles a final event whose transcript is empty
EmptyFinal(speech_final) == LoopEventWith(T_empty, TRUE, speech_final)

\* this step calls commit_now with the pending text from the event loop
LoopCommitsPending ==
    /\ calls' = calls + 1 /\ pending_kr' = pending_kr
    /\ UNCHANGED <<pending_task, tasks, nArmed>>
    /\ IF norm_ws(pending_kr) # norm_ws(last_kr)
       THEN /\ seq' = seq + 1 /\ loop' = "commit"
            /\ frame'[0].pc = "translate" /\ frame'[0].kr = pending_kr
       ELSE seq' = seq /\ loop' = "recv" /\ frame' = frame

\* this step cancels the debounce task and creates a new one for the pending text
RearmsPending ==
    /\ nArmed' = nArmed + 1 /\ pending_task' = nArmed + 1
    /\ tasks'[nArmed + 1] = NewTask(pending_kr)
    /\ pending_task # 0 => tasks'[pending_task].st = "ended"
    /\ UNCHANGED <<pending_kr, seq, last_kr, calls, loop>>

\* this step leaves the aggregation state as it is
NothingDone ==
    UNCHANGED <<pending_kr, pending_task, tasks, frame, seq, last_kr, calls, loop, nArmed>>

(* C31 as stated: a final event with an empty transcript keeps the pending *)
(* text; with speech_final it commits the pending text at once, without    *)
(* speech_final it re-arms the debounce task for it, and with no pending   *)
(* text it does nothing.                                                   *)
C31_EmptyFinalCommitsOrRearms ==
    [][\A speech_final \in BOOLEAN :
         EmptyFinal(speech_final) =>
            IF pending_kr = None THEN NothingDone
            ELSE IF speech_final THEN LoopCommitsPending
            ELSE RearmsPending]_vars

(* C31 amended: a final event with an empty transcript keeps the pending   *)
(* text and runs the flush rules on it: with speech_final, or when the     *)
(* pending text ends in a terminal mark, it calls commit_now with it at    *)
(* once; otherwise it re-arms the debounce task for it; with no pending    *)
(* text it does nothing.                                                   *)
C31_EmptyFinalRunsFlushRules ==
    [][\A speech_final \in BOOLEAN :
         EmptyFinal(speech_final) =>
            IF pending_kr = None THEN NothingDone
            ELSE IF speech_final \/ ends_like_sentence(pending_kr) THEN LoopCommitsPending
            ELSE RearmsPending]_vars

\* an empty final without speech_final has met a pending text that ends in a
\* terminal mark (kept because it repeated the last commit) and has called
\* commit_now with it instead of arming a task
C31_Witness ==
    /\ pending_kr = T_ab_p /\ last_kr = T_ab_p /\ seq = 1
    /\ nEv = 2 /\ calls = 3 /\ nArmed = 0 /\ loop = "recv"


----------------------------------------------------------------------------
(* Vocabulary of the progress property *)

\* text is pending on a sleeping debounce task and commit_now has been called
\* k times so far
WaitsOnTimer(text, k) ==
    /\ pending_kr = text /\ calls = k
    /\ pending_task # 0 /\ tasks[pending_task].st = "sleep"

(* C32: a pending text that waits on the debounce task and is not revised  *)
(* is eventually given to commit_now (or the pending text changes), also   *)
(* when final events with an empty transcript keep arriving.               *)
C32_PendingEventuallyAttempted ==
    \A text \in {T_ab, T_long}, k \in 0 .. MaxEvents + 1 :
        WaitsOnTimer(text, k) ~> (calls # k \/ pending_kr # text)


----------------------------------------------------------------------------
(* Vocabulary of the overlap property *)

\* task t completes a commit while the pending text is another text (texts
\* are compared as the de-dup test compares them)
CompletesOlder(t) ==
    /\ Completed(t)
    /\ pending_kr # None /\ norm_ws(pending_kr) # norm_ws(frame[t].kr)

\* executor e is inside commit_now with the pending text
CommitsPending(e) == frame[e].pc # "idle" /\ frame[e].kr = pending_kr

(* C33: when a commit started by a debounce task completes while a newer,  *)
(* different text is pending, that newer text is not dropped: it is being  *)
(* committed by another executor, and its commit goes on untouched.        *)
C33_OlderCommitDropsNothing ==
    [][\A t \in TaskIds :
         CompletesOlder(t) =>
            \E e \in Executors \ {t} :
                /\ CommitsPending(e)
                /\ frame'[e] = frame[e]
                /\ e # 0 => tasks'[e].st = "commit"]_vars

----------------------------------------------------------------------------
(* C34: once the ASR stream has ended, by the client's disconnect or by a  *)
(* finalize of a client that stays connected, the handler eventually       *)
(* cancels both flows and returns.                                         *)
C34_HandlerReturnsWhenEitherSideEnds ==
    (conn.dg = "ended") ~> (conn.handler = "returned")


----------------------------------------------------------------------------
(* Vocabulary of the SentenceAggregator properties *)

\* the condition under which a call of ingest is to return its text
IngestEmits(a, text, is_final, speech_final) ==
    /\ strip(text) # << >>
    /\ \/ speech_final
       \/ is_final /\ EndsWithTerminalMark(strip(text))
       \/ is_final /\ ~a.require_punct /\ a.open /\ a.waited

(* C35: ingest returns the trimmed text it was given exactly when that     *)
(* text is non-empty and speech_final is set, or is_final is set and the   *)
(* text ends in a terminal mark, or is_final is set, require_punct is      *)
(* false and max_wait_ms have passed since the utterance opened; otherwise *)
(* it returns None.  force_flush returns the buffer of an open utterance.  *)
(* After an emission the aggregator is closed with an empty buffer and a   *)
(* force_flush that follows at once returns None.                          *)
C35_IngestEmitsExactlyWhenDue ==
    [][/\ \A text \in AggTexts, is_final \in BOOLEAN, speech_final \in BOOLEAN :
            (agg.on /\ agg.n < MaxCalls /\ agg' = ingest(agg, text, is_final, speech_final)) =>
                agg'.out = IF IngestEmits(agg, text, is_final, speech_final)
                           THEN strip(text) ELSE None
       /\ (agg.on /\ agg.n < MaxCalls /\ agg' = force_flush(agg)) =>
            agg'.out = IF agg.open THEN agg.latest ELSE None
       /\ agg'.out # None =>
            /\ ~agg'.open /\ agg'.latest = None
            /\ force_flush(agg').out = None
            /\ agg'.emitted = agg.emitted \cup {agg'.out}]_vars

\* a final without a terminal mark was held, the wait passed, and the next
\* call returned the text
C35_Witness ==
    /\ agg.on /\ ~agg.require_punct /\ agg.n = 2 /\ agg.waited /\ ~agg.open
    /\ agg.out = T_ab /\ agg.latest = None
    /\ agg.finals = {T_ab} /\ agg.emitted = {T_ab}


----------------------------------------------------------------------------
(* Vocabulary of the Committer properties *)

\* the condition under which a call of maybe_commit is to return a commit
CommitDue(c, text, is_final, speech_final) ==
    /\ strip(text) # << >>
    /\ is_final \/ speech_final
    /\ strip(text) # c.last

(* C36: maybe_commit returns a commit exactly for a text that is non-empty *)
(* after trimming, has is_final or speech_final set and differs from the   *)
(* text committed before; the commit carries the next seq, so that the seq *)
(* values returned are 1, 2, 3, ... in call order; a call that returns     *)
(* None leaves seq and the last committed text as they were.               *)
C36_CommitsAreNewFinalsInOrder ==
    [][\A text \in CommitTexts, is_final \in BOOLEAN, speech_final \in BOOLEAN :
          (committer.on /\ committer.n < MaxCalls
             /\ committer' = maybe_commit(committer, text, is_final, speech_final)) =>
                /\ committer'.out.ok <=> CommitDue(committer, text, is_final, speech_final)
                /\ committer'.out.ok =>
                      /\ committer'.out = [ok |-> TRUE, seq |-> committer.seq + 1,
                                           text |-> strip(text)]
                      /\ committer'.seq = committer.seq + 1
                      /\ committer'.last = strip(text)
                /\ ~committer'.out.ok =>
                      /\ committer'.seq = committer.seq
                      /\ committer'.last = committer.last
                /\ committer'.rets = [i \in 1 .. committer'.seq |-> i]]_vars

\* two commits were returned and a third call, with the text of the second
\* behind a blank, returned None
C36_Witness ==
    /\ committer.on /\ committer.n = 3 /\ committer.rets = <<1, 2>>
    /\ committer.seq = 2 /\ committer.last = T_ab /\ ~committer.out.ok


----------------------------------------------------------------------------
(* Vocabulary of the ScriptStore properties *)

\* a call of load or clear by thread w returns
WriterReturns(w) == threads[w].pc # "idle" /\ threads'[w].pc = "idle"

\* the thread that calls match and stats takes a step
ReaderActs == threads'[Reader] # threads[Reader]

(* C37: the version of the store changes only when a load or a clear       *)
(* returns, then by exactly one, and the call returns the version it       *)
(* produced; match and stats change neither the version nor the pairs nor  *)
(* the threshold; the threshold stored is always within [0.0, 1.0].        *)
C37_VersionCountsLoadsAndClears ==
    [][/\ script_store'.version # script_store.version =>
             /\ script_store'.version = script_store.version + 1
             /\ \E w \in Writers : WriterReturns(w)
       /\ \A w \in Writers : WriterReturns(w) =>
             /\ script_store'.version = script_store.version + 1
             /\ threads'[w].ret.kind \in {"load", "clear"}
             /\ threads'[w].ret.version = script_store'.version
       /\ ReaderActs =>
             /\ script_store'.version = script_store.version
             /\ script_store'.pairs = script_store.pairs
             /\ script_store'.threshold = script_store.threshold
       /\ script_store'.threshold \in 0 .. 100]_vars

\* a clear returned version 1, a load with a threshold above 1.0 returned
\* version 2 and the threshold 1.0, and two reads were made
C37_Witness ==
    /\ script_store.on /\ script_store.version = 2 /\ script_store.threshold = 100
    /\ \E w \in Writers : threads[w].ret.kind = "clear" /\ threads[w].ret.version = 1
    /\ \E w \in Writers : /\ threads[w].ret.kind = "load" /\ threads[w].ret.version = 2
                          /\ threads[w].ret.threshold = 100 /\ threads[w].ret.count = 1
    /\ threads[Reader].n = 2

(* C38: what match returns belongs to one generation of the store: the     *)
(* threshold returned is the threshold of the generation whose version is  *)
(* returned, a pair returned is a pair of that generation, and its score   *)
(* is at least that threshold; for every text, an empty one included.      *)
C38_MatchResultFromOneGeneration ==
    LET r == threads[Reader].ret IN
    r.kind = "match" =>
       /\ r.version + 1 \in DOMAIN script_store.gens
       /\ LET g == script_store.gens[r.version + 1] IN
          /\ r.threshold = g.threshold
          /\ r.pair # NoPair =>
                /\ \E i \in DOMAIN g.pairs : g.pairs[i] = r.pair
                /\ ScoreAtLeast(r.score, r.threshold)


====
